---- MODULE Spec2Model ----
(***************************************************************************)
(* Brand-detection medallion ETL (apps/etl-brand/main.py), the brand       *)
(* matcher (apps/etl-brand/brand_matcher.py) and the online prediction     *)
(* service (services/brand-detector/main.py), as one state machine over a  *)
(* shared PostgreSQL store.                                                *)
(*                                                                         *)
(* Every database statement is one atomic step (asyncpg's execute/fetch    *)
(* outside a transaction autocommits) and may raise a storage error.       *)
(* Texts are tuples of one-character strings.  Floats are exact fractions  *)
(* <<num, den>> in lowest terms.  Hashes are modelled as injective tagged  *)
(* values of what they digest.                                             *)
(***************************************************************************)
EXTENDS Integers, Sequences, FiniteSets, Bags, TLC

(* ----------------------------- bounds ---------------------------------- *)
\* number of pipeline invocations (CLI commands) started in one behaviour
MaxRuns == 2
\* number of storage errors the store raises in one behaviour
MaxFaults == 1
\* number of csv files that land in the input directory after the start
MaxNewFiles == 1
\* number of /predict requests served in one behaviour
MaxOnline == 1
\* requests to a service that runs without the pipeline
MaxRequests == 2
\* changes of the dictionary (the file replaced, /dictionary/upsert called)
MaxChanges == 1

(* ----------------------------- values ---------------------------------- *)
NULL == "NULL"
\* the id no row has (SQL NULL in an id column)
NoId == 0
\* pandas' value of an empty csv cell; json.dumps writes it as the token NaN
NaN == <<"NaN">>
\* the empty string; also stands for SQL NULL in a text column (`not text`
\* treats both alike)
EmptyText == <<>>

RECURSIVE Gcd(_, _)
Gcd(a, b) == IF b = 0 THEN a ELSE Gcd(b, a % b)

\* an exact non-negative fraction in lowest terms
Frac(n, d) == LET g == Gcd(n, d) IN <<n \div g, d \div g>>
FracGT(x, y) == x[1] * y[2] > y[1] * x[2]
FracMin(x, y) == IF FracGT(x, y) THEN y ELSE x

SeqToSet(s) == {s[i] : i \in 1..Len(s)}


(* ----------------------------- texts ----------------------------------- *)
T_coke == <<"a", " ", "C", "o", "k", "e">>
T_xyz == <<"x", "y", "z">>
Texts == {T_coke, T_xyz}

\* str.lower() on the characters the texts are made of
LowerChar(c) == IF c = "C" THEN "c" ELSE c
Lower(t) == [i \in 1..Len(t) |-> LowerChar(t[i])]

\* \w of the re module, on the characters the texts are made of
IsWordChar(c) == c \notin {" ", "-"}

(* ------------------------- brand dictionaries --------------------------- *)
\* A regex of the dictionary, restricted to the shapes the dictionaries use:
\* an alternation of literals, optionally between \b...\b; ".*"; and a
\* pattern re cannot compile.
Lit(wb, alts) == [kind |-> "alts", wb |-> wb, alts |-> alts]
AnyRe == [kind |-> "any", wb |-> FALSE, alts |-> <<>>]
BadRe == [kind |-> "bad", wb |-> FALSE, alts |-> <<>>]

Entry(name, regex, weight10) == [name |-> name, regex |-> regex, weight10 |-> weight10]

\* brand_matcher.py:40-50, the dictionary used when the file is not found
\* (weights in tenths; [\s-]? expanded over the characters of the texts)
DefaultBrands ==
    << Entry("coke", Lit(TRUE, << <<"c","o","c","a"," ","c","o","l","a">>,
                                  <<"c","o","c","a","-","c","o","l","a">>,
                                  <<"c","o","c","a","c","o","l","a">>,
                                  <<"c","o","k","e">> >>), 10),
       Entry("pepsi", Lit(TRUE, << <<"p","e","p","s","i">> >>), 10),
       Entry("sprite", Lit(TRUE, << <<"s","p","r","i","t","e">> >>), 10),
       Entry("red_bull", Lit(TRUE, << <<"r","e","d"," ","b","u","l","l">>,
                                      <<"r","e","d","-","b","u","l","l">>,
                                      <<"r","e","d","b","u","l","l">> >>), 10),
       Entry("monster", Lit(TRUE, << <<"m","o","n","s","t","e","r">> >>), 8),
       Entry("gatorade", Lit(TRUE, << <<"g","a","t","o","r","a","d","e">> >>), 10),
       Entry("powerade", Lit(TRUE, << <<"p","o","w","e","r","a","d","e">> >>), 10),
       Entry("mountain_dew", Lit(TRUE, << <<"m","o","u","n","t","a","i","n"," ","d","e","w">>,
                                          <<"m","o","u","n","t","a","i","n","-","d","e","w">>,
                                          <<"m","o","u","n","t","a","i","n","d","e","w">>,
                                          <<"m","t","n"," ","d","e","w">>,
                                          <<"m","t","n","-","d","e","w">>,
                                          <<"m","t","n","d","e","w">> >>), 10),
       Entry("generic", AnyRe, 1) >>

\* Dictionary files: the bytes are (layout, parsed content); two layouts of
\* the same content are different bytes that yaml.safe_load parses alike.
BrandsCoke == << Entry("coke", Lit(FALSE, << <<"c","o","c","a"," ","c","o","l","a">>,
                                             <<"c","o","k","e">> >>), 10) >>
BrandsCoke8 == << Entry("coke", Lit(FALSE, << <<"c","o","c","a"," ","c","o","l","a">>,
                                              <<"c","o","k","e">> >>), 8) >>
\* the dictionaries a deployment may be given besides: an own generic entry
\* whose pattern is not ".*"; one whose pattern is ".*"; a weight above 1; a
\* weight of 0 and one below; an entry without regex key (pattern ''); an
\* entry whose regex does not compile; and a file that defines no brand
CokeRe == Lit(FALSE, << <<"c","o","c","a"," ","c","o","l","a">>, <<"c","o","k","e">> >>)
BrandsOwnGeneric ==
    << Entry("coke", CokeRe, 10),
       Entry("generic", Lit(TRUE, << <<"g","e","n","e","r","i","c">> >>), 5) >>
BrandsGenericAny == << Entry("coke", CokeRe, 10), Entry("generic", AnyRe, 5) >>
BrandsHeavy == << Entry("coke", CokeRe, 20) >>
BrandsZero == << Entry("coke", CokeRe, 0) >>
BrandsNegative == << Entry("coke", CokeRe, -10) >>
BrandsNoRegex == << Entry("blank", Lit(FALSE, << <<>> >>), 10) >>
BrandsBad == << Entry("coke", CokeRe, 10), Entry("broken", BadRe, 10) >>
BrandsNone == <<>>
\* three entries that all match "coke": a light one first, then two of the
\* same weight and the same match
BrandsTie ==
    << Entry("soda", Lit(FALSE, << <<"k","e">> >>), 5),
       Entry("coke", CokeRe, 10),
       Entry("cola", Lit(FALSE, << <<"c","o","k","e">> >>), 10) >>
DictFile(layout, brands) == [layout |-> layout, data |-> [brands |-> brands]]
Missing == [layout |-> -1, data |-> [brands |-> <<>>]]
\* a file whose bytes are not YAML: yaml.safe_load raises on it
Malformed == [layout |-> -2, data |-> [brands |-> <<>>]]

(* ------------------------------ file system ----------------------------- *)
P_app == "/app/packages/shared/dictionaries/brands.yaml"
P_pkg == "../../packages/brand-detection/dictionaries/brands.yaml"
P_shared == "packages/shared/dictionaries/brands.yaml"
P_here == "apps/etl-brand/brands.yaml"
P_cwd == "brands.yaml"
Paths == {P_app, P_pkg, P_shared, P_here, P_cwd}

\* the dictionary files a deployment may hold: the image's copy and the
\* repository's copy, each present or not
FsWith(a, s) == [p \in Paths |-> IF p = P_app THEN a ELSE IF p = P_shared THEN s ELSE Missing]
FsConfigs ==
    { FsWith(Missing, Missing),
      FsWith(Missing, DictFile(0, BrandsCoke)),
      FsWith(DictFile(1, BrandsCoke), DictFile(0, BrandsCoke)),
      FsWith(DictFile(1, BrandsCoke), DictFile(0, BrandsCoke8)) }

\* the dictionary files the matcher is exercised on
MatcherFiles ==
    {Missing, Malformed, DictFile(1, BrandsCoke)}
    \cup {DictFile(0, b) : b \in {BrandsCoke, BrandsCoke8, BrandsOwnGeneric, BrandsGenericAny,
                                  BrandsHeavy, BrandsZero, BrandsNegative, BrandsNoRegex,
                                  BrandsBad, BrandsNone, BrandsTie}}

\* the dictionary files of successive releases: the weight of coke changes,
\* or the file is taken away
ReleasedFiles == {DictFile(0, BrandsCoke), DictFile(0, BrandsCoke8), Missing}

(* ------------------------------ BrandMatcher ---------------------------- *)
\* hashlib.md5(bytes).hexdigest()[:8] and hashlib.sha256(str).hexdigest()[:8]:
\* two different digests, each injective on what it reads
Md5Hex(bytes) == <<"md5", bytes>>
Sha256Hex(str) == <<"sha256", str>>
\* hexdigest()[:8]
Prefix8(hex) == <<"8", hex>>
\* json.dumps(data, sort_keys=True): the parsed content, without the layout
JsonDumpsSorted(data) == <<"json", data>>

\* BrandMatcher._find_dictionary
FindDictionary(f) ==
    LET paths == <<P_app, P_pkg, P_shared, P_here>>
        found == {i \in 1..Len(paths) : f[paths[i]] # Missing}
    IN  IF found # {} THEN paths[CHOOSE i \in found : \A j \in found : i <= j]
        ELSE P_cwd

\* BrandMatcher._load_dictionary: only FileNotFoundError is caught; a file
\* without a brands key gives data.get('brands', {}), the empty dictionary
LoadBrands(f, path) ==
    IF f[path] = Missing THEN [raised |-> NULL, brands |-> DefaultBrands]
    ELSE IF f[path] = Malformed THEN [raised |-> "yaml.YAMLError", brands |-> <<>>]
    ELSE [raised |-> NULL, brands |-> f[path].data.brands]

\* faulty variant: a version that does not read the file
GetDictionaryVersionConstant(f, path) == <<"default">>

\* faulty variant: a digest of the brand names only
GetDictionaryVersionOfNames(f, path) ==
    IF f[path] = Missing THEN <<"default">>
    ELSE Prefix8(Md5Hex([i \in 1..Len(f[path].data.brands) |-> f[path].data.brands[i].name]))

\* BrandMatcher._get_dictionary_version
GetDictionaryVersion(f, path) ==
    IF f[path] = Missing THEN <<"default">> ELSE Prefix8(Md5Hex(f[path]))

\* BrandMatcher.__init__; path = NULL is the call without argument; raised is
\* the exception that left the constructor, if any
BrandMatcher(f, path) ==
    LET dictionary_path == IF path = NULL THEN FindDictionary(f) ELSE path
        loaded == LoadBrands(f, dictionary_path)
    IN  [raised |-> loaded.raised,
         dictionary_path |-> dictionary_path,
         brands |-> loaded.brands,
         model_version |-> "1.0.0",
         dictionary_version |-> GetDictionaryVersion(f, dictionary_path)]

\* the literal lit occurs in t at position pos (1-based)
LitAt(lit, t, pos) ==
    /\ pos + Len(lit) - 1 <= Len(t)
    /\ \A k \in 1..Len(lit) : t[pos + k - 1] = lit[k]

\* \b between positions pos-1 and pos of t
WordBoundary(t, pos) ==
    LET before == pos > 1 /\ IsWordChar(t[pos - 1])
        after == pos <= Len(t) /\ IsWordChar(t[pos])
    IN  before # after

AltAt(re, a, t, pos) ==
    /\ LitAt(re.alts[a], t, pos)
    /\ re.wb => WordBoundary(t, pos) /\ WordBoundary(t, pos + Len(re.alts[a]))

\* len(re.search(pattern, t).group()), or -1 when re.search returns None:
\* the leftmost position with a match, and the first alternative there
MatchLen(re, t) ==
    IF re.kind = "any" THEN Len(t)
    ELSE LET hits == {pos \in 1..(Len(t) + 1) : \E a \in 1..Len(re.alts) : AltAt(re, a, t, pos)}
         IN  IF hits = {} THEN -1
             ELSE LET pos == CHOOSE x \in hits : \A y \in hits : x <= y
                      a == CHOOSE x \in 1..Len(re.alts) :
                              /\ AltAt(re, x, t, pos)
                              /\ \A y \in 1..(x - 1) : ~AltAt(re, y, t, pos)
                  IN  Len(re.alts[a])

\* faulty variant: if confidence >= best_confidence, the last of the entries
\* tied for the maximum wins
RECURSIVE PredictLoopLastWins(_, _, _, _)
PredictLoopLastWins(brands, t, i, st) ==
    IF i > Len(brands) \/ st.raised # NULL THEN st
    ELSE LET e == brands[i]
             m == MatchLen(e.regex, t)
         IN  IF e.regex.kind = "bad" THEN [st EXCEPT !.raised = "re.error"]
             ELSE IF m < 0 THEN PredictLoopLastWins(brands, t, i + 1, st)
             ELSE IF Len(t) = 0 THEN [st EXCEPT !.raised = "ZeroDivisionError"]
             ELSE LET confidence == Frac(e.weight10 * (Len(t) + m), 20 * Len(t))
                  IN  IF ~FracGT(st.best_confidence, confidence)
                      THEN PredictLoopLastWins(brands, t, i + 1,
                               [st EXCEPT !.best_match = e.name, !.best_confidence = confidence])
                      ELSE PredictLoopLastWins(brands, t, i + 1, st)

\* the loop of BrandMatcher.predict from entry i on; st carries best_match,
\* best_confidence and the exception raised, if any
RECURSIVE PredictLoop(_, _, _, _)
PredictLoop(brands, t, i, st) ==
    IF i > Len(brands) \/ st.raised # NULL THEN st
    ELSE LET e == brands[i]
             m == MatchLen(e.regex, t)
         IN  IF e.regex.kind = "bad" THEN [st EXCEPT !.raised = "re.error"]
             ELSE IF m < 0 THEN PredictLoop(brands, t, i + 1, st)
             ELSE IF Len(t) = 0 THEN [st EXCEPT !.raised = "ZeroDivisionError"]
             ELSE LET confidence == Frac(e.weight10 * (Len(t) + m), 20 * Len(t))
                  IN  IF FracGT(confidence, st.best_confidence)
                      THEN PredictLoop(brands, t, i + 1,
                               [st EXCEPT !.best_match = e.name, !.best_confidence = confidence])
                      ELSE PredictLoop(brands, t, i + 1, st)

\* the start of the loop: best_match = None, best_confidence = 0.0
PredictStart == [best_match |-> NULL, best_confidence |-> Frac(0, 1), raised |-> NULL]

\* faulty variant: without a match, the weight of the dictionary's own generic
\* entry where it has one
PredictOwnGenericWeight(matcher, text) ==
    LET st == PredictLoop(matcher.brands, Lower(text), 1, PredictStart)
        nomatch == st.best_match = NULL \/ st.best_match = ""
        own == {i \in 1..Len(matcher.brands) : matcher.brands[i].name = "generic"}
        floor == IF own = {} THEN Frac(1, 10)
                 ELSE Frac(matcher.brands[CHOOSE i \in own : TRUE].weight10, 10)
    IN  [raised |-> st.raised,
         brand |-> IF nomatch THEN "generic" ELSE st.best_match,
         confidence |-> FracMin(IF nomatch THEN floor ELSE st.best_confidence, Frac(1, 1)),
         model_version |-> matcher.model_version,
         dictionary_version |-> matcher.dictionary_version]

\* faulty variant: best_confidence returned as it is, without min(.., 1.0)
PredictUnclamped(matcher, text) ==
    LET st == PredictLoop(matcher.brands, Lower(text), 1, PredictStart)
        nomatch == st.best_match = NULL \/ st.best_match = ""
    IN  [raised |-> st.raised,
         brand |-> IF nomatch THEN "generic" ELSE st.best_match,
         confidence |-> IF nomatch THEN Frac(1, 10) ELSE st.best_confidence,
         model_version |-> matcher.model_version,
         dictionary_version |-> matcher.dictionary_version]

\* BrandMatcher.predict: [raised |-> exception or NULL, brand, confidence,
\* model_version, dictionary_version]
Predict(matcher, text) ==
    LET st == PredictLoop(matcher.brands, Lower(text), 1, PredictStart)
        nomatch == st.best_match = NULL \/ st.best_match = ""
    IN  [raised |-> st.raised,
         brand |-> IF nomatch THEN "generic" ELSE st.best_match,
         confidence |-> FracMin(IF nomatch THEN Frac(1, 10) ELSE st.best_confidence, Frac(1, 1)),
         model_version |-> matcher.model_version,
         dictionary_version |-> matcher.dictionary_version]

(* ------------------------------ input files ----------------------------- *)
\* A csv file: its name, whether it has a text column, the order of its
\* columns, and its rows (the value of column n and of column text).
CsvRow(n, text) == [n |-> n, text |-> text]
CsvFile(name, hasText, ord, rows) ==
    [name |-> name, hasText |-> hasText, ord |-> ord, rows |-> rows]

FileA == CsvFile("a.csv", TRUE, 0, << CsvRow(1, T_coke), CsvRow(1, T_coke) >>)
FileB == CsvFile("b.csv", TRUE, 1, << CsvRow(1, T_coke), CsvRow(2, T_xyz) >>)
FileC == CsvFile("c.csv", FALSE, 0, << CsvRow(3, EmptyText) >>)
FileD == CsvFile("d.csv", TRUE, 0, << CsvRow(4, NaN) >>)
FilePool == {FileA, FileB, FileC, FileD}

\* row.to_dict(): the payload keeps the column order of its file
ToDict(file, r) ==
    [ord |-> file.ord, hasText |-> file.hasText, n |-> file.rows[r].n,
     text |-> file.rows[r].text]

\* faulty variant: json.dumps(payload) without sort_keys, the column order
\* goes into the digest
EventHashKeepsOrder(payload) ==
    <<"sha256", [ord |-> payload.ord, hasText |-> payload.hasText, n |-> payload.n,
                 text |-> payload.text]>>

\* hashlib.sha256(json.dumps(payload, sort_keys=True).encode()).digest():
\* sort_keys drops the column order
EventHash(payload) ==
    <<"sha256", [hasText |-> payload.hasText, n |-> payload.n, text |-> payload.text]>>

\* the rows of the files in the order bronze_layer reads them
RECURSIVE RowsOf(_)
RowsOf(files) ==
    IF files = <<>> THEN <<>>
    ELSE [r \in 1..Len(Head(files).rows) |->
             [payload |-> ToDict(Head(files), r), source_file |-> Head(files).name]]
         \o RowsOf(Tail(files))

\* list(Path(input_dir).glob("*.csv")): the files in an order the file system picks
GlobOrders(dir) ==
    {f \in [1..Cardinality(dir) -> dir] : \A i, j \in 1..Cardinality(dir) : i # j => f[i] # f[j]}

(* ------------------------------- state ---------------------------------- *)
Procs == {1, 2}
\* the invocations of Spec run one after the other, as one process
SeqProcs == {1}
Commands == {"run_all", "bronze_only", "silver_only", "gold_only"}

VARIABLES
    \* the store
    bronze,          \* scout.bronze_raw_events, id = position
    silver,          \* scout.silver_normalized_events, id = position
    gold,            \* scout.gold_brand_predictions, a bag of rows (no statement reads its id)
    dictVersions,    \* scout.data_dictionary_versions, one row per version
    predictionRuns,  \* scout.prediction_runs, a bag of rows
    modelMetrics,    \* scout.model_metrics, a bag of rows
    enforce,         \* the schema has UNIQUE(bronze_id) on silver and UNIQUE(silver_id) on gold
    \* the environment
    fs,              \* the dictionary files
    inputDir,        \* the csv files of input_dir
    \* the pipeline processes
    pc, cmd, conn, loc,
    \* the prediction service
    svc,
    \* history (not program state)
    gh, ingested, silverSeen, goldSeen, broken,
    \* budgets
    nruns, nfaults, nnew, nonline, nchanges

storeVars == <<bronze, silver, gold, dictVersions, predictionRuns, modelMetrics>>
envVars == <<enforce, fs, inputDir>>
procVars == <<pc, cmd, conn, loc>>
histVars == <<ingested, silverSeen, goldSeen, broken>>
budgetVars == <<nruns, nfaults, nnew, nonline, nchanges>>
vars == <<storeVars, envVars, procVars, svc, gh, histVars, budgetVars>>

\* the locals of one invocation
Loc0 ==
    [dictionary |-> P_shared,     \* the --dictionary option
     rows |-> <<>>, i |-> 0,      \* bronze_layer: the rows to insert, the next one
     total_rows |-> 0,
     picked |-> {},               \* silver_layer: the bronze ids its SELECT returned
     dict_version |-> <<"unset">>,
     records |-> <<>>, k |-> 0,   \* gold_layer: the fetched silver rows, the next one
     matcher |-> BrandMatcher([q \in Paths |-> Missing], P_cwd),
     total_predictions |-> 0,
     bronze_rows |-> -1, silver_rows |-> -1, gold_rows |-> -1,   \* stage results
     status |-> "success",        \* log_run_metrics' status argument
     m |-> 0,                     \* log_run_metrics: statements done
     handling |-> FALSE,          \* inside the except block of run_all
     exc |-> NULL]                \* the exception in flight

\* the result of predict before any call
NoResult ==
    [raised |-> NULL, brand |-> NULL, confidence |-> Frac(0, 1), model_version |-> NULL,
     dictionary_version |-> <<"unset">>]

\* the service process before its first request; loads counts the calls of
\* BrandMatcher._load_dictionary the process has made; gold0 and metrics0 are
\* the numbers of rows /predict had written when the request in hand arrived
\* (history, not program state)
Svc0 ==
    [pc |-> "idle", text |-> EmptyText,
     matcher |-> BrandMatcher([q \in Paths |-> Missing], P_cwd),
     result |-> NoResult, response |-> NULL, loads |-> 0, gold0 |-> 0, metrics0 |-> 0]

\* the history of one invocation
Gh0 ==
    [inv |-> 0,                   \* the number of the invocation
     dir |-> {},                  \* the files bronze_layer found
     preBronze |-> 0, preSilver |-> 0, preGold |-> 0,  \* table sizes when the stage began
     seen |-> 0,                  \* the size of the upstream table the stage read
     cleanSilver |-> FALSE,       \* silver_layer began with no Bronze row new since its last run
     cleanGold |-> FALSE,         \* gold_layer began with no Silver row new since its last run
     known |-> FALSE,             \* bronze_layer began on an input already ingested
     stages |-> <<>>,             \* the stages entered, in order
     orig |-> NULL,               \* the first exception raised
     cand |-> [active |-> FALSE, dir |-> {}],  \* the broken-off run before this one
     resume |-> FALSE,            \* this run_all follows a run_all whose Gold stage broke off
     runBronze |-> 0, runSilver |-> 0, runGold |-> 0,  \* table sizes when the invocation began
     runPending |-> {}]           \* the Silver ids with text and no Gold row, then

\* a Silver row some other writer left: no bronze_id, no text
LegacySilver == [text_input |-> EmptyText, source_file |-> "legacy", bronze_id |-> NoId]

\* the store before the first invocation, and the processes before they start
InitCommon ==
    /\ bronze = <<>>
    /\ silver \in {<<>>, <<LegacySilver>>}
    /\ gold = EmptyBag
    /\ dictVersions = {}
    /\ predictionRuns = EmptyBag
    /\ modelMetrics = EmptyBag
    /\ pc = [p \in Procs |-> "idle"]
    /\ cmd = [p \in Procs |-> "run_all"]
    /\ conn = [p \in Procs |-> "none"]
    /\ loc = [p \in Procs |-> Loc0]
    /\ svc = Svc0
    /\ gh = [p \in Procs |-> Gh0]
    /\ ingested = {}
    /\ silverSeen = -1
    /\ goldSeen = -1
    /\ broken = [active |-> FALSE, dir |-> {}]
    /\ nruns = 0 /\ nfaults = 0 /\ nnew = 0 /\ nonline = 0 /\ nchanges = 0

\* The pipeline reads the dictionary at its --dictionary path only.  One
\* invocation at a time never meets a row it has not seen, so the unique
\* constraints of the schema have no effect on it: Spec takes the schema
\* without them.
Init ==
    /\ InitCommon
    /\ enforce = FALSE
    /\ fs \in {FsWith(Missing, Missing), FsWith(Missing, DictFile(0, BrandsCoke))}
    /\ inputDir \in {{FileB}, {FileA, FileB}, {FileB, FileC}, {FileB, FileD}}

\* the same, with an input directory that gains files between invocations
InitInput ==
    /\ InitCommon
    /\ enforce = FALSE
    /\ fs \in {FsWith(Missing, Missing), FsWith(Missing, DictFile(0, BrandsCoke))}
    /\ inputDir = {FileB}

\* overlapping invocations, with and without the constraints
InitConc ==
    /\ InitCommon
    /\ enforce \in BOOLEAN
    /\ fs = FsWith(Missing, DictFile(0, BrandsCoke))
    /\ inputDir = {FileB}

\* the service alone, on each of the dictionary files
InitMatcher ==
    /\ InitCommon
    /\ enforce = FALSE
    /\ fs \in {FsWith(Missing, d) : d \in MatcherFiles}
    /\ inputDir = {FileB}

\* the service alone, on a dictionary file that is replaced while it runs
InitReload ==
    /\ InitCommon
    /\ enforce = FALSE
    /\ fs \in {FsWith(Missing, d) : d \in ReleasedFiles}
    /\ inputDir = {FileB}

\* the pipeline, the service and /dictionary/upsert on one store; the input
\* holds the same row in two files
InitFrame ==
    /\ InitCommon
    /\ enforce = FALSE
    /\ fs = FsWith(Missing, DictFile(0, BrandsCoke))
    /\ inputDir = {FileA, FileB}

(* --------------------------- control flow ------------------------------- *)
\* the stages a command runs, in order
StagesOf(c) ==
    CASE c = "run_all" -> <<"Bronze", "Silver", "Gold">>
      [] c = "bronze_only" -> <<"Bronze">>
      [] c = "silver_only" -> <<"Silver">>
      [] c = "gold_only" -> <<"Gold">>

StagePc(stage) ==
    CASE stage = "Bronze" -> "bronze_start"
      [] stage = "Silver" -> "silver_select"
      [] stage = "Gold" -> "gold_dict"

\* faulty variant: run_all goes from Bronze to Gold
PcAfterStageSkipsSilver(c, stage) ==
    IF stage = "Bronze" THEN (IF c = "run_all" THEN "gold_dict" ELSE "finally")
    ELSE IF stage = "Silver" THEN (IF c = "run_all" THEN "gold_dict" ELSE "finally")
    ELSE IF c = "run_all" THEN "log" ELSE "finally"

\* where _run goes when the stage has returned: to the next stage, then to
\* log_run_metrics (run_all) or to disconnect (the *_only commands)
PcAfterStage(c, stage) ==
    LET n == CHOOSE i \in 1..Len(StagesOf(c)) : StagesOf(c)[i] = stage
    IN  IF n < Len(StagesOf(c)) THEN StagePc(StagesOf(c)[n + 1])
        ELSE IF c = "run_all" THEN "log" ELSE "finally"

\* where an exception raised at process p goes: into the except block of
\* run_all (main.py:225), out of it through finally when it is raised inside
\* the except block, and straight out of the *_only commands, which have no try
PcOnRaise(p) ==
    IF cmd[p] = "run_all" THEN (IF loc[p].handling THEN "finally" ELSE "except")
    ELSE "failed"

Raise(p, e) ==
    /\ pc' = [pc EXCEPT ![p] = PcOnRaise(p)]
    /\ loc' = [loc EXCEPT ![p].exc = e, ![p].handling = (cmd[p] = "run_all")]
    /\ gh' = [gh EXCEPT ![p].orig = IF @ = NULL THEN e ELSE @]

\* the state of the run of process p, in the terms of the state machine
\* Bronze -> Silver -> Gold -> Done, Failed: Start is the connect before
\* Bronze, Completing the log_run_metrics and disconnect before Done, Failing
\* the except and finally blocks before Failed
StageOf(at, exc, handling) ==
    CASE at = "idle" -> "Idle"
      [] at = "connect" -> "Start"
      [] at \in {"bronze_start", "bronze"} -> "Bronze"
      [] at \in {"silver_select", "silver_insert"} -> "Silver"
      [] at \in {"gold_dict", "gold_fetch", "gold_loop"} -> "Gold"
      [] at \in {"log", "finally", "except"} ->
            IF exc = NULL /\ ~handling THEN "Completing" ELSE "Failing"
      [] at = "done" -> "Done"
      [] at = "failed" -> "Failed"

\* INSERT of one row into a table without a key
InsertRow(table, row) == table (+) SetToBag({row})

\* the number of Gold rows that reference Silver id x
GoldRowsOf(x) ==
    LET rows == {g \in BagToSet(gold) : g.silver_id = x}
    IN  BagCardinality([g \in rows |-> gold[g]])

\* the Silver rows with a text that no Gold row references
PendingSilver ==
    {x \in 1..Len(silver) : silver[x].text_input # EmptyText /\ GoldRowsOf(x) = 0}

\* the number of Gold rows and of metric rows /predict wrote
OnlineGoldCount ==
    LET rows == {g \in BagToSet(gold) : g.silver_id = NoId}
    IN  BagCardinality([g \in rows |-> gold[g]])
OnlineMetricCount ==
    LET rows == {m \in BagToSet(modelMetrics) : m.name = "prediction_count"}
    IN  BagCardinality([m \in rows |-> modelMetrics[m]])

\* the number of Gold rows gold_layer wrote (those of /predict have no silver_id)
BatchGoldCount ==
    LET rows == {g \in BagToSet(gold) : g.silver_id # NoId}
    IN  BagCardinality([g \in rows |-> gold[g]])

(* ------------------------------ run_all etc. ---------------------------- *)
\* a CLI command starts: etl = BrandETL(DATABASE_URL).  In Spec (conc = FALSE)
\* the invocations follow one another; in SpecConc they overlap.
Start(p, c, conc) ==
    /\ pc[p] = "idle"
    /\ nruns < MaxRuns
    /\ conc \/ \A q \in Procs : pc[q] = "idle"
    /\ nruns' = nruns + 1
    /\ pc' = [pc EXCEPT ![p] = "connect"]
    /\ cmd' = [cmd EXCEPT ![p] = c]
    /\ conn' = [conn EXCEPT ![p] = "none"]
    /\ loc' = [loc EXCEPT ![p] = Loc0]
    /\ gh' = [gh EXCEPT ![p] = [Gh0 EXCEPT !.inv = nruns + 1, !.cand = broken,
                                           !.runBronze = Len(bronze), !.runSilver = Len(silver),
                                           !.runGold = BatchGoldCount,
                                           !.runPending = PendingSilver]]
    /\ broken' = [active |-> FALSE, dir |-> {}]
    /\ UNCHANGED <<storeVars, envVars, svc, ingested, silverSeen, goldSeen, nfaults, nnew, nonline, nchanges>>

\* BrandETL.connect
Connect(p) ==
    /\ pc[p] = "connect"
    /\ conn' = [conn EXCEPT ![p] = "open"]
    /\ pc' = [pc EXCEPT ![p] = StagePc(StagesOf(cmd[p])[1])]
    /\ UNCHANGED <<storeVars, envVars, cmd, loc, svc, gh, histVars, budgetVars>>

\* asyncpg.connect raises: self.connection stays None
ConnectFails(p) ==
    /\ pc[p] = "connect"
    /\ nfaults < MaxFaults
    /\ nfaults' = nfaults + 1
    /\ Raise(p, "ConnectionError")
    /\ UNCHANGED <<storeVars, envVars, cmd, conn, svc, histVars, nruns, nnew, nonline, nchanges>>

\* bronze_layer, up to the first row: glob the directory, read the files
BronzeStart(p) ==
    /\ pc[p] = "bronze_start"
    /\ \E order \in GlobOrders(inputDir) :
          loc' = [loc EXCEPT ![p].rows = RowsOf(order), ![p].i = 1, ![p].total_rows = 0]
    /\ gh' = [gh EXCEPT ![p].dir = inputDir, ![p].preBronze = Len(bronze),
                        ![p].known = (inputDir \in ingested),
                        ![p].resume = (cmd[p] = "run_all" /\ gh[p].cand.active
                                         /\ gh[p].cand.dir = inputDir),
                        ![p].stages = Append(@, "Bronze")]
    /\ pc' = [pc EXCEPT ![p] = "bronze"]
    /\ UNCHANGED <<storeVars, envVars, cmd, conn, svc, histVars, budgetVars>>

\* faulty variant: the INSERT without its ON CONFLICT clause
InsertBronzeAlways(table, row) ==
    Append(table, [payload |-> row.payload, source_file |-> row.source_file,
                   event_hash |-> EventHash(row.payload)])

\* faulty variant: ON CONFLICT (event_hash) DO UPDATE SET source_file
InsertBronzeUpdating(table, row) ==
    IF \E b \in 1..Len(table) : table[b].event_hash = EventHash(row.payload)
    THEN [b \in 1..Len(table) |->
             IF table[b].event_hash = EventHash(row.payload)
             THEN [table[b] EXCEPT !.source_file = row.source_file]
             ELSE table[b]]
    ELSE Append(table, [payload |-> row.payload, source_file |-> row.source_file,
                        event_hash |-> EventHash(row.payload)])

\* INSERT INTO scout.bronze_raw_events ... ON CONFLICT (event_hash) DO NOTHING
InsertBronze(table, row) ==
    IF \E b \in 1..Len(table) : table[b].event_hash = EventHash(row.payload)
    THEN table
    ELSE Append(table, [payload |-> row.payload, source_file |-> row.source_file,
                        event_hash |-> EventHash(row.payload)])

\* faulty variant: total_rows counts the rows the INSERT added
BronzeRowCountsInserted(p) ==
    /\ pc[p] = "bronze"
    /\ loc[p].i <= Len(loc[p].rows)
    /\ LET row == loc[p].rows[loc[p].i] IN
          IF row.payload.hasText /\ row.payload.text = NaN
          THEN /\ Raise(p, "DataError")
               /\ UNCHANGED bronze
          ELSE /\ bronze' = InsertBronze(bronze, row)
               /\ loc' = [loc EXCEPT ![p].i = @ + 1,
                                     ![p].total_rows = @ + Len(bronze') - Len(bronze)]
               /\ UNCHANGED <<pc, gh>>
    /\ UNCHANGED <<silver, gold, dictVersions, predictionRuns, modelMetrics, envVars, cmd, conn,
                   svc, histVars, budgetVars>>

\* one pass of the loop of bronze_layer (main.py:55-70).  json.dumps writes an
\* empty cell as NaN, which the cast to jsonb rejects.
BronzeRow(p) ==
    /\ pc[p] = "bronze"
    /\ loc[p].i <= Len(loc[p].rows)
    /\ LET row == loc[p].rows[loc[p].i] IN
          IF row.payload.hasText /\ row.payload.text = NaN
          THEN /\ Raise(p, "DataError")
               /\ UNCHANGED bronze
          ELSE /\ bronze' = InsertBronze(bronze, row)
               /\ loc' = [loc EXCEPT ![p].i = @ + 1, ![p].total_rows = @ + 1]
               /\ UNCHANGED <<pc, gh>>
    /\ UNCHANGED <<silver, gold, dictVersions, predictionRuns, modelMetrics, envVars, cmd, conn,
                   svc, histVars, budgetVars>>

\* bronze_layer returns total_rows
BronzeReturn(p) ==
    /\ pc[p] = "bronze"
    /\ loc[p].i > Len(loc[p].rows)
    /\ loc' = [loc EXCEPT ![p].bronze_rows = loc[p].total_rows]
    /\ pc' = [pc EXCEPT ![p] = PcAfterStage(cmd[p], "Bronze")]
    /\ ingested' = ingested \cup {gh[p].dir}
    /\ UNCHANGED <<storeVars, envVars, cmd, conn, svc, gh, silverSeen, goldSeen, broken,
                   budgetVars>>

(* ------------------------------ silver_layer ---------------------------- *)
\* faulty variant: the SELECT without its NOT IN clause
SilverCandidatesAll == {b \in 1..Len(bronze) : bronze[b].payload.hasText}

\* faulty variant: the SELECT without AND payload ? 'text'
SilverCandidatesAnyPayload ==
    {b \in 1..Len(bronze) :
        b \notin {silver[x].bronze_id : x \in {y \in 1..Len(silver) : silver[y].bronze_id # NoId}}}

\* the SELECT of main.py:83-93: the Bronze ids with a text key that no Silver
\* row references
SilverCandidates ==
    {b \in 1..Len(bronze) :
        /\ b \notin {silver[x].bronze_id : x \in {y \in 1..Len(silver) : silver[y].bronze_id # NoId}}
        /\ bronze[b].payload.hasText}

\* the Silver rows of the Bronze ids in ids, in id order, after table
RECURSIVE AppendSilver(_, _)
AppendSilver(table, ids) ==
    IF ids = {} THEN table
    ELSE LET b == CHOOSE x \in ids : \A y \in ids : x <= y
         IN  AppendSilver(Append(table, [text_input |-> bronze[b].payload.text,
                                         source_file |-> bronze[b].source_file,
                                         bronze_id |-> b]),
                          ids \ {b})

\* the status asyncpg's execute returns for an INSERT of n rows, and
\* int(result.split()[-1]) if result.startswith('INSERT') else 0
InsertStatus(n) == <<"INSERT", 0, n>>
RowsAffected(result) == IF result[1] = "INSERT" THEN result[Len(result)] ELSE 0

\* the statement of silver_layer takes its snapshot: the rows it will insert
SilverSelect(p) ==
    /\ pc[p] = "silver_select"
    /\ loc' = [loc EXCEPT ![p].picked = SilverCandidates]
    /\ gh' = [gh EXCEPT ![p].preSilver = Len(silver), ![p].seen = Len(bronze),
                        ![p].cleanSilver = (silverSeen = Len(bronze)),
                        ![p].stages = Append(@, "Silver")]
    /\ pc' = [pc EXCEPT ![p] = "silver_insert"]
    /\ UNCHANGED <<storeVars, envVars, cmd, conn, svc, histVars, budgetVars>>

\* the statement of silver_layer inserts and silver_layer returns.  A row
\* another statement inserted since the snapshot is a duplicate, or a unique
\* violation where the schema has the constraint.
SilverInsert(p) ==
    /\ pc[p] = "silver_insert"
    /\ LET dup == \E x \in 1..Len(silver) : silver[x].bronze_id \in loc[p].picked IN
          IF enforce /\ dup
          THEN /\ Raise(p, "UniqueViolationError")
               /\ UNCHANGED <<silver, silverSeen>>
          ELSE /\ silver' = AppendSilver(silver, loc[p].picked)
               /\ loc' = [loc EXCEPT ![p].silver_rows =
                                        RowsAffected(InsertStatus(Cardinality(loc[p].picked)))]
               /\ pc' = [pc EXCEPT ![p] = PcAfterStage(cmd[p], "Silver")]
               /\ silverSeen' = gh[p].seen
               /\ UNCHANGED gh
    /\ UNCHANGED <<bronze, gold, dictVersions, predictionRuns, modelMetrics, envVars, cmd, conn,
                   svc, ingested, goldSeen, broken, budgetVars>>

(* ------------------------------- gold_layer ----------------------------- *)
\* INSERT ... ON CONFLICT (version) DO UPDATE of _load_dictionary
UpsertVersion(table, version, checksum, data) ==
    {r \in table : r.version # version}
        \cup {[version |-> version, checksum |-> checksum, dictionary_data |-> data]}

\* _load_dictionary (main.py:154-177): a file that cannot be opened or parsed
\* gives "error"
GoldLoadDictionary(p) ==
    /\ pc[p] = "gold_dict"
    /\ LET file == fs[loc[p].dictionary]
           checksum == Sha256Hex(JsonDumpsSorted(file.data))
       IN  IF file \in {Missing, Malformed}
           THEN /\ loc' = [loc EXCEPT ![p].dict_version = <<"error">>]
                /\ UNCHANGED dictVersions
           ELSE /\ dictVersions' = UpsertVersion(dictVersions, Prefix8(checksum), checksum, file.data)
                /\ loc' = [loc EXCEPT ![p].dict_version = Prefix8(checksum)]
    /\ gh' = [gh EXCEPT ![p].preGold = BatchGoldCount,
                        ![p].cleanGold = (goldSeen = Len(silver)),
                        ![p].stages = Append(@, "Gold")]
    /\ pc' = [pc EXCEPT ![p] = "gold_fetch"]
    /\ UNCHANGED <<bronze, silver, gold, predictionRuns, modelMetrics, envVars, cmd, conn, svc,
                   histVars, budgetVars>>

\* the upsert of _load_dictionary raises: `except Exception` returns "error"
GoldLoadDictionaryFails(p) ==
    /\ pc[p] = "gold_dict"
    /\ fs[loc[p].dictionary] \notin {Missing, Malformed}
    /\ nfaults < MaxFaults
    /\ nfaults' = nfaults + 1
    /\ loc' = [loc EXCEPT ![p].dict_version = <<"error">>]
    /\ gh' = [gh EXCEPT ![p].preGold = BatchGoldCount,
                        ![p].cleanGold = (goldSeen = Len(silver)),
                        ![p].stages = Append(@, "Gold")]
    /\ pc' = [pc EXCEPT ![p] = "gold_fetch"]
    /\ UNCHANGED <<storeVars, envVars, cmd, conn, svc, histVars, nruns, nnew, nonline, nchanges>>

\* faulty variant: the SELECT without its NOT IN clause
UnprocessedSilverAll == 1..Len(silver)

\* faulty variant: the subquery without WHERE silver_id IS NOT NULL; x NOT IN
\* (..., NULL) is not true of any x
UnprocessedSilverNullable ==
    IF \E g \in BagToSet(gold) : g.silver_id = NoId THEN {}
    ELSE {x \in 1..Len(silver) : x \notin {g.silver_id : g \in BagToSet(gold)}}

\* the SELECT of main.py:109-116: the Silver ids no Gold row references
UnprocessedSilver ==
    {x \in 1..Len(silver) :
        x \notin {g.silver_id : g \in {y \in BagToSet(gold) : y.silver_id # NoId}}}

\* the rows of ids as fetch returns them (id, text_input), in table order
RECURSIVE FetchRecords(_)
FetchRecords(ids) ==
    IF ids = {} THEN <<>>
    ELSE LET x == CHOOSE a \in ids : \A b \in ids : a <= b
         IN  <<[id |-> x, text_input |-> silver[x].text_input]>> \o FetchRecords(ids \ {x})

\* the fetch of gold_layer, and matcher = BrandMatcher(dictionary_path)
\* (main.py:109-125)
GoldFetch(p) ==
    /\ pc[p] = "gold_fetch"
    /\ LET matcher == BrandMatcher(fs, loc[p].dictionary)
       IN  IF matcher.raised # NULL
           THEN /\ loc' = [loc EXCEPT ![p].records = FetchRecords(UnprocessedSilver),
                                      ![p].total_predictions = 0,
                                      ![p].exc = matcher.raised,
                                      ![p].handling = (cmd[p] = "run_all")]
                /\ gh' = [gh EXCEPT ![p].seen = Len(silver),
                                    ![p].orig = IF @ = NULL THEN matcher.raised ELSE @]
                /\ pc' = [pc EXCEPT ![p] = PcOnRaise(p)]
           ELSE /\ loc' = [loc EXCEPT ![p].records = FetchRecords(UnprocessedSilver), ![p].k = 1,
                                      ![p].total_predictions = 0,
                                      ![p].matcher = matcher]
                /\ gh' = [gh EXCEPT ![p].seen = Len(silver)]
                /\ pc' = [pc EXCEPT ![p] = "gold_loop"]
    /\ UNCHANGED <<storeVars, envVars, cmd, conn, svc, histVars, budgetVars>>

\* the Gold row of a prediction (main.py:136-147; silver_id = NoId and a
\* context for the service's rows, services/brand-detector/main.py:113-124)
GoldRow(silver_id, text, prediction) ==
    [silver_id |-> silver_id, text_input |-> text, brand |-> prediction.brand,
     confidence |-> prediction.confidence, model_version |-> prediction.model_version,
     dictionary_version |-> prediction.dictionary_version]

\* the Gold stage breaks off after some, not all, of its predictions
BreaksOff(p) ==
    /\ cmd[p] = "run_all"
    /\ loc[p].total_predictions > 0
    /\ \E j \in loc[p].k..Len(loc[p].records) : loc[p].records[j].text_input # EmptyText

\* one pass of the loop of gold_layer (main.py:127-149)
GoldRecord(p) ==
    /\ pc[p] = "gold_loop"
    /\ loc[p].k <= Len(loc[p].records)
    /\ LET record == loc[p].records[loc[p].k]
           text == record.text_input
           prediction == Predict(loc[p].matcher, text)
       IN  IF text = EmptyText
           THEN /\ loc' = [loc EXCEPT ![p].k = @ + 1]
                /\ UNCHANGED <<gold, pc, gh, broken>>
           ELSE IF prediction.raised # NULL
           THEN /\ Raise(p, prediction.raised)
                /\ broken' = [active |-> BreaksOff(p), dir |-> gh[p].dir]
                /\ UNCHANGED gold
           ELSE IF enforce /\ \E g \in BagToSet(gold) : g.silver_id = record.id
           THEN /\ Raise(p, "UniqueViolationError")
                /\ broken' = [active |-> BreaksOff(p), dir |-> gh[p].dir]
                /\ UNCHANGED gold
           ELSE /\ gold' = InsertRow(gold, GoldRow(record.id, text, prediction))
                /\ loc' = [loc EXCEPT ![p].k = @ + 1, ![p].total_predictions = @ + 1]
                /\ UNCHANGED <<pc, gh, broken>>
    /\ UNCHANGED <<bronze, silver, dictVersions, predictionRuns, modelMetrics, envVars, cmd, conn,
                   svc, ingested, silverSeen, goldSeen, budgetVars>>

\* gold_layer returns total_predictions
GoldReturn(p) ==
    /\ pc[p] = "gold_loop"
    /\ loc[p].k > Len(loc[p].records)
    /\ loc' = [loc EXCEPT ![p].gold_rows = loc[p].total_predictions]
    /\ pc' = [pc EXCEPT ![p] = PcAfterStage(cmd[p], "Gold")]
    /\ goldSeen' = gh[p].seen
    /\ UNCHANGED <<storeVars, envVars, cmd, conn, svc, gh, ingested, silverSeen, broken,
                   budgetVars>>

(* ---------------------------- log_run_metrics --------------------------- *)
\* the arguments of the log_run_metrics call in flight (main.py:218, 227)
LogArgs(p) ==
    IF loc[p].status = "failed" THEN <<0, 0, 0>>
    ELSE <<loc[p].bronze_rows, loc[p].silver_rows, loc[p].gold_rows>>

MetricNames == <<"etl_rows_bronze", "etl_rows_silver", "etl_rows_gold">>

\* one statement of log_run_metrics (main.py:181-198): the prediction_runs
\* row, then the three model_metrics rows; run_all goes on after the fourth.
\* inv, the invocation that wrote the row, is history, not a column.
LogStatement(p) ==
    /\ pc[p] = "log"
    /\ IF loc[p].m = 0
       THEN /\ predictionRuns' = InsertRow(predictionRuns,
                   [bronze_rows |-> LogArgs(p)[1], silver_rows |-> LogArgs(p)[2],
                    gold_rows |-> LogArgs(p)[3], status |-> loc[p].status, inv |-> gh[p].inv])
            /\ UNCHANGED modelMetrics
       ELSE /\ modelMetrics' = InsertRow(modelMetrics,
                   [name |-> MetricNames[loc[p].m], value |-> LogArgs(p)[loc[p].m]])
            /\ UNCHANGED predictionRuns
    /\ loc' = [loc EXCEPT ![p].m = @ + 1]
    /\ pc' = [pc EXCEPT ![p] = IF loc[p].m = 3 THEN "finally" ELSE "log"]
    /\ UNCHANGED <<bronze, silver, gold, dictVersions, envVars, cmd, conn, svc, gh, histVars,
                   budgetVars>>

\* the except block of run_all (main.py:225-228): log the failed run, then
\* re-raise.  With self.connection still None the call raises AttributeError.
Except(p) ==
    /\ pc[p] = "except"
    /\ IF conn[p] = "none"
       THEN Raise(p, "AttributeError")
       ELSE /\ loc' = [loc EXCEPT ![p].status = "failed", ![p].m = 0]
            /\ pc' = [pc EXCEPT ![p] = "log"]
            /\ UNCHANGED gh
    /\ UNCHANGED <<storeVars, envVars, cmd, conn, svc, histVars, budgetVars>>

\* the finally block of run_all, and the disconnect of the *_only commands
Finally(p) ==
    /\ pc[p] = "finally"
    /\ conn' = [conn EXCEPT ![p] = IF @ = "open" THEN "closed" ELSE @]
    /\ pc' = [pc EXCEPT ![p] = IF loc[p].exc = NULL THEN "done" ELSE "failed"]
    /\ UNCHANGED <<storeVars, envVars, cmd, loc, svc, gh, histVars, budgetVars>>

\* the process ends
Exit(p) ==
    /\ pc[p] \in {"done", "failed"}
    /\ pc' = [pc EXCEPT ![p] = "idle"]
    /\ cmd' = [cmd EXCEPT ![p] = "run_all"]
    /\ conn' = [conn EXCEPT ![p] = "none"]
    /\ loc' = [loc EXCEPT ![p] = Loc0]
    /\ gh' = [gh EXCEPT ![p] = Gh0]
    /\ UNCHANGED <<storeVars, envVars, svc, histVars, budgetVars>>

\* process p is about to execute a statement of a stage or of log_run_metrics
AtStatement(p) ==
    \/ pc[p] = "bronze" /\ loc[p].i <= Len(loc[p].rows)
    \/ pc[p] \in {"silver_insert", "gold_fetch", "log"}
    \/ /\ pc[p] = "gold_loop"
       /\ loc[p].k <= Len(loc[p].records)
       /\ loc[p].records[loc[p].k].text_input # EmptyText

\* the statement raises a storage error (connection lost, server error)
StorageError(p) ==
    /\ AtStatement(p)
    /\ nfaults < MaxFaults
    /\ nfaults' = nfaults + 1
    /\ Raise(p, "PostgresError")
    /\ broken' = IF pc[p] = "gold_loop" THEN [active |-> BreaksOff(p), dir |-> gh[p].dir]
                 ELSE broken
    /\ UNCHANGED <<storeVars, envVars, cmd, conn, svc, ingested, silverSeen, goldSeen, nruns,
                   nnew, nonline, nchanges>>

(* ------------------------------ environment ----------------------------- *)
\* a csv file lands in input_dir.  Only the glob of bronze_layer reads the
\* directory, so a file that lands during an invocation is one that lands
\* before it began or after it ended.
NewFile(f) ==
    /\ nnew < MaxNewFiles
    /\ \A p \in Procs : pc[p] = "idle"
    /\ f \notin inputDir
    /\ nnew' = nnew + 1
    /\ inputDir' = inputDir \cup {f}
    /\ UNCHANGED <<storeVars, enforce, fs, procVars, svc, gh, histVars, nruns, nfaults, nonline, nchanges>>

(* --------------------------- prediction service ------------------------- *)
\* POST /predict, up to the first read of the dictionary file
\* (services/brand-detector/main.py:97-105, brand_matcher.py:10-12): every
\* request constructs its own BrandMatcher; an exception of the constructor
\* is answered with status 500.  limit bounds the requests of a behaviour.
PredictBrand(text, limit) ==
    /\ svc.pc = "idle"
    /\ nonline < limit
    /\ nonline' = nonline + 1
    /\ LET matcher == [BrandMatcher(fs, NULL) EXCEPT !.dictionary_version = <<"unset">>]
       IN  IF matcher.raised # NULL
           THEN svc' = [svc EXCEPT !.pc = "idle", !.text = text, !.matcher = matcher,
                                   !.result = [NoResult EXCEPT !.raised = matcher.raised],
                                   !.response = "500", !.loads = @ + 1,
                                   !.gold0 = OnlineGoldCount, !.metrics0 = OnlineMetricCount]
           ELSE svc' = [svc EXCEPT !.pc = "version", !.text = text, !.matcher = matcher,
                                   !.result = NoResult, !.response = NULL, !.loads = @ + 1,
                                   !.gold0 = OnlineGoldCount, !.metrics0 = OnlineMetricCount]
    /\ UNCHANGED <<storeVars, envVars, procVars, gh, histVars, nruns, nfaults, nnew, nchanges>>

\* the second read of the dictionary file, for the version
\* (brand_matcher.py:13), and matcher.predict (main.py:108): an exception of
\* predict is answered with status 500
PredictVersion ==
    /\ svc.pc = "version"
    /\ LET matcher == [svc.matcher EXCEPT !.dictionary_version =
                           GetDictionaryVersion(fs, svc.matcher.dictionary_path)]
           result == Predict(matcher, svc.text)
       IN  IF result.raised # NULL
           THEN svc' = [svc EXCEPT !.pc = "idle", !.matcher = matcher, !.result = result,
                                   !.response = "500"]
           ELSE svc' = [svc EXCEPT !.pc = "insert_gold", !.matcher = matcher,
                                   !.result = result]
    /\ UNCHANGED <<storeVars, envVars, procVars, gh, histVars, budgetVars>>

\* INSERT INTO scout.gold_brand_predictions of /predict (main.py:113-124)
PredictInsertGold ==
    /\ svc.pc = "insert_gold"
    /\ gold' = InsertRow(gold, GoldRow(NoId, svc.text, svc.result))
    /\ svc' = [svc EXCEPT !.pc = "insert_metric"]
    /\ UNCHANGED <<bronze, silver, dictVersions, predictionRuns, modelMetrics, envVars, procVars,
                   gh, histVars, budgetVars>>

\* INSERT INTO scout.model_metrics of /predict (main.py:127-130), and the response
PredictInsertMetric ==
    /\ svc.pc = "insert_metric"
    /\ modelMetrics' = InsertRow(modelMetrics, [name |-> "prediction_count", value |-> 1])
    /\ svc' = [svc EXCEPT !.pc = "idle", !.response = "200"]
    /\ UNCHANGED <<bronze, silver, gold, dictVersions, predictionRuns, envVars, procVars, gh,
                   histVars, budgetVars>>

\* a statement of /predict raises: status 500 (main.py:144-147)
PredictStorageError ==
    /\ svc.pc \in {"insert_gold", "insert_metric"}
    /\ nfaults < MaxFaults
    /\ nfaults' = nfaults + 1
    /\ svc' = [svc EXCEPT !.pc = "idle", !.response = "500"]
    /\ UNCHANGED <<storeVars, envVars, procVars, gh, histVars, nruns, nnew, nonline, nchanges>>

(* --------------------------- dictionary changes ------------------------- *)
\* a release replaces the dictionary file (or removes it).  The matcher opens
\* the file once for the entries and once for the version
\* (brand_matcher.py:35, 56); the replacement may fall before, between or
\* after the two.
DictionaryChange(d) ==
    /\ nchanges < MaxChanges
    /\ d # fs[P_shared]
    /\ nchanges' = nchanges + 1
    /\ fs' = [fs EXCEPT ![P_shared] = d]
    /\ UNCHANGED <<storeVars, enforce, inputDir, procVars, svc, gh, histVars, nruns, nfaults,
                   nnew, nonline>>

\* request.version of /dictionary/upsert
UpsertVersions == {<<"v1">>, <<"v2">>}

\* POST /dictionary/upsert (services/brand-detector/main.py:149-173): the
\* payload goes into the versions table under the version the request names;
\* neither the dictionary file nor a matcher is touched
UpsertDictionary(version, brands) ==
    /\ nchanges < MaxChanges
    /\ nchanges' = nchanges + 1
    /\ LET checksum == Sha256Hex(JsonDumpsSorted(brands))
       IN  dictVersions' = UpsertVersion(dictVersions, version, checksum, brands)
    /\ UNCHANGED <<bronze, silver, gold, predictionRuns, modelMetrics, envVars, procVars, svc, gh,
                   histVars, nruns, nfaults, nnew, nonline>>

(* ----------------------------- specifications --------------------------- *)
Step(p) ==
    \/ Connect(p)
    \/ BronzeStart(p)
    \/ BronzeRow(p)
    \/ BronzeReturn(p)
    \/ SilverSelect(p)
    \/ SilverInsert(p)
    \/ GoldLoadDictionary(p)
    \/ GoldFetch(p)
    \/ GoldRecord(p)
    \/ GoldReturn(p)
    \/ LogStatement(p)
    \/ Except(p)
    \/ Finally(p)
    \/ Exit(p)

\* the store or the network fails under process p
Fault(p) ==
    \/ ConnectFails(p)
    \/ GoldLoadDictionaryFails(p)
    \/ StorageError(p)

Service(limit) ==
    \/ \E text \in Texts \cup {EmptyText} : PredictBrand(text, limit)
    \/ PredictVersion
    \/ PredictInsertGold
    \/ PredictInsertMetric
    \/ PredictStorageError

Environment == \E f \in FilePool : NewFile(f)

\* invocations one after the other, on a store and a network that may fail
Next ==
    \/ \E p \in SeqProcs : \E c \in Commands : Start(p, c, FALSE)
    \/ \E p \in SeqProcs : Step(p)
    \/ \E p \in SeqProcs : Fault(p)

Spec == Init /\ [][Next]_vars

\* invocations one after the other, with files arriving between them
NextInput ==
    \/ \E p \in SeqProcs : \E c \in Commands : Start(p, c, FALSE)
    \/ \E p \in SeqProcs : Step(p)
    \/ Environment

SpecInput == InitInput /\ [][NextInput]_vars

\* invocations that overlap, on a store that does not fail; the processes
\* are alike, so the lower-numbered one starts first
NextConc ==
    \/ \E p \in Procs : \E c \in Commands :
          /\ \A q \in Procs : q < p => gh[q].inv # 0
          /\ Start(p, c, TRUE)
    \/ \E p \in Procs : Step(p)

SpecConc == InitConc /\ [][NextConc]_vars

\* the pipeline, one invocation at a time, beside the prediction service
InitService ==
    /\ InitCommon
    /\ enforce = FALSE
    /\ fs \in FsConfigs
    /\ inputDir = {FileB}

NextService ==
    \/ \E p \in SeqProcs : \E c \in Commands : Start(p, c, FALSE)
    \/ \E p \in SeqProcs : Step(p)
    \/ \E p \in SeqProcs : ConnectFails(p)
    \/ Service(MaxOnline)

SpecService == InitService /\ [][NextService]_vars

\* requests to the service one after the other, the pipeline not running
NextMatcher == Service(MaxRequests)

SpecMatcher == InitMatcher /\ [][NextMatcher]_vars

\* requests to the service while the dictionary changes
NextReload ==
    \/ Service(MaxRequests)
    \/ \E d \in ReleasedFiles : DictionaryChange(d)
    \/ \E version \in UpsertVersions : \E brands \in {BrandsCoke, BrandsCoke8} :
          UpsertDictionary(version, brands)

SpecReload == InitReload /\ [][NextReload]_vars

\* every operation that writes the store: run_all, which runs the three
\* stages and log_run_metrics, with /predict and /dictionary/upsert in between
NextFrame ==
    \/ \E p \in SeqProcs : Start(p, "run_all", FALSE)
    \/ \E p \in SeqProcs : Step(p)
    \/ \E p \in SeqProcs : ConnectFails(p)
    \/ Service(MaxOnline)
    \/ \E version \in UpsertVersions : UpsertDictionary(version, BrandsCoke8)

SpecFrame == InitFrame /\ [][NextFrame]_vars

(* -------------------------------- claims -------------------------------- *)
\* C1: a run_all that follows, on the same input, a run_all whose Gold stage
\* broke off after some of its predictions adds no Bronze row and no Silver
\* row, and when it completes it has inserted one Gold row for each Silver row
\* with a text that had none, so that each such Silver row has exactly one.
C1_ResumeCompletesGold ==
    \A p \in Procs : gh[p].resume =>
        /\ Len(bronze) = gh[p].runBronze
        /\ Len(silver) = gh[p].runSilver
        /\ pc[p] = "done" =>
              /\ loc[p].gold_rows = Cardinality(gh[p].runPending)
              /\ BatchGoldCount = gh[p].runGold + Cardinality(gh[p].runPending)
              /\ \A x \in 1..Len(silver) : silver[x].text_input # EmptyText => GoldRowsOf(x) = 1

C1_Witness ==
    \E p \in Procs :
        /\ gh[p].resume /\ pc[p] = "done"
        /\ gh[p].runGold > 0
        /\ gh[p].runPending # {}

\* C2: bronze_layer run on an input that an earlier bronze_layer run ingested
\* completely leaves the Bronze table at the size it found, and the table
\* never holds two rows with the same event_hash.
C2_BronzeIdempotent ==
    /\ \A p \in Procs :
          (gh[p].known /\ pc[p] # "idle" /\ "Bronze" \in SeqToSet(gh[p].stages))
              => Len(bronze) = gh[p].preBronze
    /\ \A a, b \in 1..Len(bronze) : a # b => bronze[a].event_hash # bronze[b].event_hash

C2_Witness ==
    \E p \in Procs :
        /\ gh[p].known
        /\ loc[p].bronze_rows > 0
        /\ Len(bronze) > 0

\* C3: silver_layer (gold_layer) run when no Bronze (Silver) row has been added
\* since its last completed run inserts no row and returns 0.
C3_SecondRunAddsNothing ==
    \A p \in Procs :
        /\ (gh[p].cleanSilver /\ loc[p].silver_rows # -1)
              => loc[p].silver_rows = 0 /\ Len(silver) = gh[p].preSilver
        /\ (gh[p].cleanGold /\ loc[p].gold_rows # -1)
              => loc[p].gold_rows = 0 /\ BatchGoldCount = gh[p].preGold

C3_Witness ==
    \E p \in Procs :
        /\ gh[p].cleanSilver /\ gh[p].cleanGold
        /\ loc[p].silver_rows = 0 /\ loc[p].gold_rows = 0
        /\ \E x \in 1..Len(silver) : silver[x].bronze_id # NoId /\ GoldRowsOf(x) = 1

\* C4: with the stages run one after the other, in any order and any number
\* of times, each Bronze id is referenced by at most one Silver row and each
\* Silver id by at most one Gold row.
C4_AtMostOneChild ==
    /\ \A x, y \in 1..Len(silver) :
          (x # y /\ silver[x].bronze_id # NoId) => silver[x].bronze_id # silver[y].bronze_id
    /\ \A x \in 1..Len(silver) : GoldRowsOf(x) <= 1

C4_Witness ==
    /\ nruns = MaxRuns
    /\ \E p \in Procs : pc[p] = "done" /\ cmd[p] = "gold_only"
    /\ \E x \in 1..Len(silver) : silver[x].bronze_id # NoId /\ GoldRowsOf(x) = 1

\* C5: on a store that enforces the unique constraints, an invocation that
\* comes to write a Silver or Gold row an overlapping invocation has written
\* does not fail for it, and no duplicate row results.
C5_DuplicateIsNoOp ==
    enforce =>
        /\ \A p \in Procs : gh[p].orig # "UniqueViolationError"
        /\ C4_AtMostOneChild

\* the prediction_runs rows invocation number n wrote
RunRowsOf(n) ==
    LET rows == {r \in BagToSet(predictionRuns) : r.inv = n}
    IN  BagCardinality([r \in rows |-> predictionRuns[r]])

\* C6: a run_all invocation that has ended, completed or raised, has written
\* exactly one prediction_runs row.
C6_OneRunRow ==
    \A p \in Procs :
        (cmd[p] = "run_all" /\ pc[p] \in {"done", "failed"}) => RunRowsOf(gh[p].inv) = 1

\* C7: a run_all invocation that raised has written a prediction_runs row
\* with status failed and counts (0, 0, 0), and raises the exception that
\* connect or the stage raised.
C7_FailedRowThenReraise ==
    \A p \in Procs :
        (cmd[p] = "run_all" /\ pc[p] = "failed") =>
            /\ \E r \in BagToSet(predictionRuns) :
                  /\ r.inv = gh[p].inv /\ r.status = "failed"
                  /\ r.bronze_rows = 0 /\ r.silver_rows = 0 /\ r.gold_rows = 0
            /\ loc[p].exc = gh[p].orig

\* C8: a run_all invocation goes Bronze, Silver, Gold, Done, each stage
\* beginning when the one before has returned; a failure leads to Failed and
\* to no other stage; Done and Failed are left only by the end of the process.
RunStage(p) == StageOf(pc[p], loc[p].exc, loc[p].handling)

C8_Transition(p) ==
    LET s == RunStage(p)
        t == StageOf(pc'[p], loc'[p].exc, loc'[p].handling)
    IN  (cmd[p] = "run_all" /\ s # "Idle" /\ s # t) =>
            \/ s = "Start" /\ t \in {"Bronze", "Failing"}
            \/ s = "Bronze" /\ t = "Silver" /\ loc'[p].bronze_rows >= 0
            \/ s = "Silver" /\ t = "Gold" /\ loc'[p].silver_rows >= 0
            \/ s = "Gold" /\ t = "Completing" /\ loc'[p].gold_rows >= 0
            \/ s \in {"Bronze", "Silver", "Gold", "Completing"} /\ t = "Failing"
            \/ s = "Completing" /\ t = "Done"
            \/ s = "Failing" /\ t = "Failed"
            \/ s \in {"Done", "Failed"} /\ t = "Idle" /\ storeVars' = storeVars

C8_StageOrder == [][\A p \in Procs : C8_Transition(p)]_vars

C8_Witness ==
    \E p \in Procs :
        /\ cmd[p] = "run_all" /\ pc[p] = "failed"
        /\ gh[p].stages = <<"Bronze", "Silver">>

\* C9: the Gold rows a gold_layer invocation has written carry, as
\* dictionary_version, the version under which that invocation stored the
\* dictionary in the dictionary-versions table.
C9_VersionResolves ==
    \A p \in Procs :
        (pc[p] = "gold_loop" /\ loc[p].dict_version # <<"error">>) =>
            \A j \in 1..(loc[p].k - 1) : \A g \in BagToSet(gold) :
                g.silver_id = loc[p].records[j].id =>
                    /\ g.dictionary_version = loc[p].dict_version
                    /\ \E r \in dictVersions : r.version = g.dictionary_version

\* C10: a Gold row of gold_layer and a Gold row of /predict with the same text
\* and the same dictionary_version have the same brand, confidence and
\* model_version.
C10_BatchOnlineAgree ==
    \A g, h \in BagToSet(gold) :
        (/\ g.silver_id # NoId /\ h.silver_id = NoId
         /\ g.text_input = h.text_input
         /\ g.dictionary_version = h.dictionary_version)
            => /\ g.brand = h.brand
               /\ g.confidence = h.confidence
               /\ g.model_version = h.model_version

C10_Witness ==
    \E g, h \in BagToSet(gold) :
        /\ g.silver_id # NoId /\ h.silver_id = NoId
        /\ g.text_input = h.text_input
        /\ g.dictionary_version = h.dictionary_version
        /\ g.dictionary_version # <<"default">>

(* --------------------- C11..C20: the matcher ---------------------------- *)
\* /predict has a prediction in hand: predict returned, it did not raise
Returned == svc.result.brand # NULL /\ svc.result.raised = NULL

\* re.search finds the pattern of no entry of brands in the lowered text
NoEntryMatches(brands, text) ==
    \A i \in 1..Len(brands) :
        brands[i].regex.kind # "bad" /\ MatchLen(brands[i].regex, Lower(text)) < 0

\* C11: when the pattern of no dictionary entry matches the text, the
\* prediction predict returns is brand 'generic' with confidence exactly 0.1,
\* also when the dictionary has a generic entry of its own with another weight.
C11_NoMatchGivesFloor ==
    Returned /\ NoEntryMatches(svc.matcher.brands, svc.text)
        => svc.result.brand = "generic" /\ svc.result.confidence = Frac(1, 10)

\* a prediction without a match, from a dictionary whose own generic entry
\* has a weight other than 0.1
C11_Witness ==
    /\ Returned
    /\ Len(svc.matcher.brands) > 0
    /\ NoEntryMatches(svc.matcher.brands, svc.text)
    /\ \E i \in 1..Len(svc.matcher.brands) :
          svc.matcher.brands[i].name = "generic" /\ svc.matcher.brands[i].weight10 # 1

\* C12: the confidence of every prediction predict returns, for every text
\* and every dictionary, is at least 0.0 and at most 1.0.
C12_ConfidenceInUnitInterval ==
    Returned => /\ ~FracGT(Frac(0, 1), svc.result.confidence)
                /\ ~FracGT(svc.result.confidence, Frac(1, 1))

\* a prediction whose matched entry has a weight above 1: the clamp has acted
C12_Witness ==
    /\ Returned
    /\ \E i \in 1..Len(svc.matcher.brands) :
          /\ svc.matcher.brands[i].name = svc.result.brand
          /\ svc.matcher.brands[i].weight10 > 10
          /\ MatchLen(svc.matcher.brands[i].regex, Lower(svc.text)) > 0
    /\ svc.result.confidence = Frac(1, 1)

\* /predict has called predict (it returned or it raised)
Predicted == svc.result.brand # NULL

\* C13: predict on the empty string does not raise; for every dictionary,
\* also one with a pattern that matches the empty string, it returns brand
\* 'generic' with confidence 0.1.
C13_EmptyTextIsNoMatch ==
    Predicted /\ svc.text = EmptyText
        => /\ svc.result.raised = NULL
           /\ svc.result.brand = "generic"
           /\ svc.result.confidence = Frac(1, 10)

\* the entries of brands whose pattern compiles
Compiling(brands) == SelectSeq(brands, LAMBDA e : e.regex.kind # "bad")

\* C14: when an entry's pattern is a malformed regular expression, predict
\* skips the entry and returns the best prediction over the other entries;
\* the prediction is not aborted.
C14_MalformedEntrySkipped ==
    Predicted /\ Compiling(svc.matcher.brands) # svc.matcher.brands
        => /\ svc.result.raised = NULL
           /\ svc.result = Predict([svc.matcher EXCEPT !.brands = Compiling(@)], svc.text)

\* /predict has constructed a matcher (the constructor returned or raised)
Constructed == svc.loads > 0

\* the file the constructor of the request in hand read
\* (none of the actions of SpecMatcher changes the files)
DictionaryRead == fs[FindDictionary(fs)]

\* C15: when the dictionary file cannot be read, because it is missing or
\* because its content is malformed, the constructor of the matcher succeeds
\* and the matcher holds the hard-coded default dictionary.
C15_UnreadableGivesDefault ==
    Constructed /\ DictionaryRead \in {Missing, Malformed}
        => svc.matcher.raised = NULL /\ svc.matcher.brands = DefaultBrands

\* C16: after construction the dictionary of a matcher holds at least one
\* entry, whether the dictionary file is missing, defines some brands or
\* defines no brand.
C16_DictionaryNeverEmpty ==
    Constructed /\ svc.matcher.raised = NULL => Len(svc.matcher.brands) > 0

\* the pipeline process p holds a matcher, and the service holds one whose
\* version is computed: two matchers constructed independently of each other
TwoMatchers(p) ==
    /\ pc[p] = "gold_loop"
    /\ svc.loads > 0 /\ svc.matcher.raised = NULL
    /\ svc.matcher.dictionary_version # <<"unset">>

\* the version _load_dictionary of the pipeline computes for the coke dictionary
CokeVersion == Prefix8(Sha256Hex(JsonDumpsSorted(DictFile(0, BrandsCoke).data)))

\* C17: two matchers loaded independently from byte-identical files have the
\* same dictionary_version, and two whose dictionaries differ in the pattern
\* or the weight of an entry have different ones; the version the pipeline
\* computes is that of the coke dictionary exactly when the file holds the
\* entries of the coke dictionary.
C17_VersionFollowsContent ==
    \A p \in Procs : TwoMatchers(p) =>
        LET a == loc[p].matcher
            b == svc.matcher
        IN  /\ fs[a.dictionary_path] = fs[b.dictionary_path]
                  => a.dictionary_version = b.dictionary_version
            /\ a.brands # b.brands => a.dictionary_version # b.dictionary_version
            /\ loc[p].dict_version = CokeVersion
                  <=> /\ fs[a.dictionary_path] # Missing
                      /\ fs[a.dictionary_path].data.brands = BrandsCoke

\* the pipeline and the service hold matchers whose coke entries differ in
\* weight, each loaded from its own file
C17_Witness ==
    \E p \in Procs :
        /\ TwoMatchers(p)
        /\ loc[p].matcher.brands = BrandsCoke8
        /\ svc.matcher.brands = BrandsCoke
        /\ loc[p].dict_version # CokeVersion

\* C18: two dictionaries with the same entries (the same patterns and
\* weights), whose files differ only in the order of the keys or in the
\* formatting, give the same dictionary_version on the predictions made with
\* them.
C18_EquivalentContentSameVersion ==
    \A p \in Procs : TwoMatchers(p) =>
        (SeqToSet(loc[p].matcher.brands) = SeqToSet(svc.matcher.brands)
            => loc[p].matcher.dictionary_version = svc.matcher.dictionary_version)

\* C19: over the /predict requests one service process serves, the
\* dictionary is loaded from disk at most once; later requests reuse the
\* matcher.
C19_DictionaryLoadedOnce == svc.loads <= 1

\* the matcher m holds the entries and the version of the file d
SnapshotOf(m, d) ==
    LET f == [fs EXCEPT ![m.dictionary_path] = d]
    IN  /\ m.brands = LoadBrands(f, m.dictionary_path).brands
        /\ m.dictionary_version = GetDictionaryVersion(f, m.dictionary_path)

\* C20: a /predict request that overlaps a change of the dictionary works on
\* one snapshot: the entries it matches against and the dictionary_version it
\* reports are those of one and the same dictionary, the old one or the new.
C20_OneSnapshot ==
    Predicted => \E d \in ReleasedFiles : SnapshotOf(svc.matcher, d)

(* --------------------- C21..C30 ------------------------------------------ *)
\* C21: when /predict answers with an error, the request has persisted
\* nothing, neither a Gold row nor a metric row; when it answers with
\* success, it has persisted both.
C21_AllOrNothing ==
    /\ svc.response = "500"
          => OnlineGoldCount = svc.gold0 /\ OnlineMetricCount = svc.metrics0
    /\ svc.response = "200"
          => OnlineGoldCount = svc.gold0 + 1 /\ OnlineMetricCount = svc.metrics0 + 1

\* the table t holds every row of the table s, unchanged and in its place
IsPrefix(s, t) == Len(s) <= Len(t) /\ \A i \in 1..Len(s) : s[i] = t[i]

\* C22: no step of bronze_layer, silver_layer, gold_layer, log_run_metrics,
\* /predict or /dictionary/upsert updates or deletes a Bronze, Silver or Gold
\* row that exists; the stored predictions keep their dictionary_version
\* over /dictionary/upsert.
C22_RowsImmutable ==
    [][/\ IsPrefix(bronze, bronze')
       /\ IsPrefix(silver, silver')
       /\ gold \sqsubseteq gold']_vars

\* the three tables hold rows, batch and online predictions among them, and
\* /dictionary/upsert has stored a version
C22_Witness ==
    /\ Len(bronze) > 0 /\ Len(silver) > 0
    /\ BatchGoldCount > 0 /\ OnlineGoldCount > 0
    /\ \E r \in dictVersions : r.version \in UpsertVersions

\* the entries of brands whose pattern re.search finds in the lowered text
Matching(brands, text) ==
    {i \in 1..Len(brands) :
        brands[i].regex.kind # "bad" /\ MatchLen(brands[i].regex, Lower(text)) >= 0}

\* weight * (0.5 + 0.5 * len(matched substring) / len(text)) of entry i
Score(brands, text, i) ==
    Frac(brands[i].weight10 * (Len(text) + MatchLen(brands[i].regex, Lower(text))),
         20 * Len(text))

\* entry i has the maximal score among the matching entries, and no matching
\* entry before it has the same score
FirstMaximal(brands, text, i) ==
    /\ i \in Matching(brands, text)
    /\ \A j \in Matching(brands, text) :
          /\ ~FracGT(Score(brands, text, j), Score(brands, text, i))
          /\ j < i => FracGT(Score(brands, text, i), Score(brands, text, j))

\* every weight of the dictionary is in (0, 1]
WeightsInUnit(brands) == \A i \in 1..Len(brands) : brands[i].weight10 \in 1..10

\* C24: for a non-empty text and weights in (0, 1], the prediction predict
\* returns is the matching entry of maximal
\* weight * (0.5 + 0.5 * len(match) / len(text)), with that value as
\* confidence, and among the entries tied for the maximum the first one of
\* the dictionary.
C24_FirstMaximalEntry ==
    /\ Returned
    /\ Len(svc.text) > 0
    /\ WeightsInUnit(svc.matcher.brands)
    /\ Matching(svc.matcher.brands, svc.text) # {}
    => \E i \in 1..Len(svc.matcher.brands) :
          /\ FirstMaximal(svc.matcher.brands, svc.text, i)
          /\ svc.result.brand = svc.matcher.brands[i].name
          /\ svc.result.confidence = Score(svc.matcher.brands, svc.text, i)

\* a prediction from a dictionary with two entries tied for the maximum
\* behind a lighter entry that matches as well
C24_Witness ==
    /\ Returned
    /\ Len(svc.text) > 0
    /\ WeightsInUnit(svc.matcher.brands)
    /\ \E i, j, k \in Matching(svc.matcher.brands, svc.text) :
          /\ k < i /\ i < j
          /\ FirstMaximal(svc.matcher.brands, svc.text, i)
          /\ Score(svc.matcher.brands, svc.text, j) = Score(svc.matcher.brands, svc.text, i)
          /\ FracGT(Score(svc.matcher.brands, svc.text, i), Score(svc.matcher.brands, svc.text, k))
          /\ svc.result.brand = svc.matcher.brands[i].name

\* the versions upsert of _load_dictionary failed in invocation p: the file
\* is there and parses, and yet the version is "error"
UpsertFailed(p) ==
    /\ loc[p].dict_version = <<"error">>
    /\ fs[loc[p].dictionary] \notin {Missing, Malformed}

\* a statement of a stage of invocation p raised a storage error
StageStorageError(p) ==
    \/ gh[p].orig = "PostgresError" /\ loc[p].gold_rows < 0
    \/ UpsertFailed(p)

\* C25: a run_all invocation in which a statement of a stage raised a storage
\* error (a Bronze insert, the Silver insert-select, the versions upsert, the
\* Gold select or a Gold insert) ends as failed, with a failed
\* prediction_runs row and no success row: no storage error is absorbed.
C25_NoStorageErrorAbsorbed ==
    \A p \in Procs :
        (cmd[p] = "run_all" /\ pc[p] \in {"done", "failed"} /\ StageStorageError(p)) =>
            /\ pc[p] = "failed"
            /\ \E r \in BagToSet(predictionRuns) : r.inv = gh[p].inv /\ r.status = "failed"
            /\ \A r \in BagToSet(predictionRuns) : r.inv = gh[p].inv => r.status # "success"

\* the number of Gold rows that reference the Silver row of id x
PredictionsOf(x) ==
    LET rows == {g \in BagToSet(gold) : g.silver_id = x}
    IN  BagCardinality([r \in rows |-> gold[r]])

\* gold_layer of invocation p has returned, and the invocation has not ended
GoldReturned(p) == loc[p].gold_rows >= 0 /\ pc[p] \in {"log", "finally", "done"}

\* C26: when gold_layer has returned, every Silver row with text has exactly
\* one Gold prediction, a Silver row with empty text has none, and the count
\* returned is the number of Gold rows the call inserted.
C26_GoldPostcondition ==
    \A p \in SeqProcs :
        GoldReturned(p) =>
            /\ \A x \in 1..Len(silver) :
                  PredictionsOf(x) = IF silver[x].text_input = EmptyText THEN 0 ELSE 1
            /\ loc[p].gold_rows = BatchGoldCount - gh[p].preGold

\* gold_layer has returned a count above 0 at a time when Silver holds rows
\* it predicted before and a row without text
C26_Witness ==
    \E p \in SeqProcs :
        /\ GoldReturned(p)
        /\ loc[p].gold_rows > 0
        /\ gh[p].preGold > 0
        /\ \E x \in 1..Len(silver) : silver[x].text_input = EmptyText

\* silver_layer of invocation p has returned, and the invocation has not ended
SilverReturned(p) == loc[p].silver_rows >= 0 /\ pc[p] # "idle"

\* C27: when silver_layer has returned, the Bronze rows with a Silver row are
\* exactly the Bronze rows whose payload has a text field (a Bronze row
\* without one is passed over and the stage returns all the same), and the
\* count returned is the number of Silver rows the call inserted.
C27_SilverPostcondition ==
    \A p \in SeqProcs :
        SilverReturned(p) =>
            /\ \A b \in 1..Len(bronze) :
                  (\E x \in 1..Len(silver) : silver[x].bronze_id = b)
                      <=> bronze[b].payload.hasText
            /\ loc[p].silver_rows = Len(silver) - gh[p].preSilver

\* silver_layer has returned a count above 0 over a Bronze table that holds
\* a row without text field
C27_Witness ==
    \E p \in SeqProcs :
        /\ SilverReturned(p)
        /\ loc[p].silver_rows > 0
        /\ \E b \in 1..Len(bronze) : ~bronze[b].payload.hasText

\* the number of rows in the files of dir
RECURSIVE RowCount(_)
RowCount(dir) ==
    IF dir = {} THEN 0
    ELSE LET f == CHOOSE x \in dir : TRUE
         IN  Len(f.rows) + RowCount(dir \ {f})

\* bronze_layer of invocation p has returned, and the invocation has not ended
BronzeReturned(p) == loc[p].bronze_rows >= 0 /\ pc[p] # "idle"

\* C28: the count bronze_layer returns is the number of rows in the files of
\* the input directory, whatever number of them it inserted; on an input
\* ingested before it returns that same count and has inserted no row.
C28_BronzeCountsProcessed ==
    \A p \in SeqProcs :
        BronzeReturned(p) =>
            /\ loc[p].bronze_rows = RowCount(gh[p].dir)
            /\ gh[p].known => Len(bronze) = gh[p].preBronze

\* bronze_layer has returned from a run on an input ingested before, with a
\* count above 0 and above the number of Bronze rows there are
C28_Witness ==
    \E p \in SeqProcs :
        /\ BronzeReturned(p)
        /\ gh[p].known
        /\ loc[p].bronze_rows > Len(bronze)
        /\ Len(bronze) = gh[p].preBronze

\* gold_layer of invocation p has fetched its records and predicted none yet
GoldFetched(p) ==
    pc[p] = "gold_loop" /\ loc[p].k = 1 /\ loc[p].total_predictions = 0

\* C29: whatever Gold rows /predict has written, the Silver rows gold_layer
\* selects are exactly the Silver rows no Gold row references.
C29_OnlineRowsLeaveSelection ==
    \A p \in SeqProcs :
        GoldFetched(p) =>
            {loc[p].records[j].id : j \in 1..Len(loc[p].records)}
                = {x \in 1..Len(silver) : PredictionsOf(x) = 0}

\* gold_layer has selected Silver rows at a time when Gold holds rows of
\* /predict
C29_Witness ==
    \E p \in SeqProcs :
        /\ GoldFetched(p)
        /\ OnlineGoldCount > 0
        /\ Len(loc[p].records) > 0

\* what a payload says: its keys and their values, in no order
Content(payload) == <<payload.hasText, payload.n, payload.text>>

\* C30: over every step of every bronze_layer run, no two Bronze rows have
\* the same payload hash or the same payload content, whether the payload
\* came twice in one file or in files of different names; a Bronze row keeps
\* its hash and its source_file, and a new row carries the source_file of
\* the input row that is its first ingestion.
C30_DedupByContent ==
    [][/\ \A i, j \in 1..Len(bronze') :
             i # j => /\ bronze'[i].event_hash # bronze'[j].event_hash
                      /\ Content(bronze'[i].payload) # Content(bronze'[j].payload)
       /\ \A i \in 1..Len(bronze) :
             /\ Len(bronze') >= i
             /\ bronze'[i].event_hash = bronze[i].event_hash
             /\ bronze'[i].source_file = bronze[i].source_file
       /\ Len(bronze') # Len(bronze) =>
             \E p \in Procs :
                 /\ pc[p] = "bronze"
                 /\ Len(bronze') = Len(bronze) + 1
                 /\ bronze'[Len(bronze')].source_file = loc[p].rows[loc[p].i].source_file
                 /\ Content(bronze'[Len(bronze')].payload)
                       = Content(loc[p].rows[loc[p].i].payload)]_vars

\* bronze_layer has returned from a directory in which one payload comes
\* twice in a.csv and once more in b.csv, and Bronze holds it once
C30_Witness ==
    \E p \in SeqProcs :
        /\ BronzeReturned(p)
        /\ {FileA, FileB} \subseteq gh[p].dir
        /\ Cardinality({b \in 1..Len(bronze) :
                Content(bronze[b].payload) = <<TRUE, 1, T_coke>>}) = 1

====
